---- MODULE Spec2Model ----
(***************************************************************************)
(* The audio-preferences router (app/routers/audio.py): catalog sync,      *)
(* settings reader, settings writer and the playback bootstrap, over the   *)
(* three tables audio_tracks, user_settings and user_audio_tracks.         *)
(*                                                                         *)
(* Strings are sequences of tokens in which "." is a token of its own, so  *)
(* that str.split(".") and the "+ '.mp3'" concatenation are computed.      *)
(* Python values that may be None are tagged records (field py).           *)
(***************************************************************************)
EXTENDS Integers, Sequences, FiniteSets, TLC

VARIABLES
    audio_tracks,       \* AudioTracks table: sequence of rows, id = position
    user_settings,      \* UserSettings table: user_id -> row or None
    user_audio_tracks,  \* UserAudioTracks table: rows in insertion order
    requests,           \* save requests in flight (one per worker)
    response            \* what the handler that ran last returned or raised

vars == <<audio_tracks, user_settings, user_audio_tracks, requests, response>>

(***************************** Python values *******************************)

None == [py |-> "None"]
PyInt(v) == [py |-> "int", val |-> v]
PyBool(b) == [py |-> "bool", val |-> b]
PyStr(s) == [py |-> "str", val |-> s]
TypeError == [py |-> "TypeError"]

RECURSIVE Gcd(_, _)
Gcd(a, b) == IF b = 0 THEN a ELSE Gcd(b, a % b)

\* a / b of two ints, b > 0: the float, kept as the fraction in lowest terms
TrueDiv(a, b) ==
    LET g == Gcd(a, b)
    IN  [py |-> "float", num |-> a \div g, den |-> b \div g]

\* bool(x) of a Python value
Truthy(x) ==
    CASE x.py = "None" -> FALSE
      [] x.py = "bool" -> x.val
      [] x.py = "int" -> x.val # 0
      [] x.py = "str" -> x.val # <<>>
      [] OTHER -> TRUE

\* choice.split(".", maxsplit=1)[0]
RECURSIVE SplitFirst(_)
SplitFirst(s) ==
    IF s = <<>> \/ Head(s) = "." THEN <<>>
    ELSE <<Head(s)>> \o SplitFirst(Tail(s))

(******************************* constants *********************************)

SONG == 1
SFX == 0

DEFAULT_MUSIC == << <<"GASTRONOMICA", ".", "mp3">> >>
DEFAULT_MUSIC_VOL == [py |-> "float", num |-> 1, den |-> 2]
DEFAULT_SFX == <<"click_1", ".", "wav">>
DEFAULT_SFX_VOL == [py |-> "float", num |-> 1, den |-> 2]

(******************************** bounds ***********************************)

MaxChoices == 1     \* longest music_choices list submitted
MaxSounds == 2      \* most .mp3 files found by one directory scan
MaxSaves == 2       \* saves one worker serves when saves are interleaved

Users == {"u1", "u2"}
Workers == {"w1", "w2"}

A == <<"a">>
AB == <<"a", ".", "b">>
C == <<"c">>
SongStems == {A, AB}        \* stems of the .mp3 files that may be on disk
SfxStems == {C}             \* stems of the .wav files that may be on disk
Titles == {A, AB, C}        \* titles a form may submit

SeqsUpTo(S, n) == UNION {[1..k -> S] : k \in 0..n}

Sound(kind, name) == [sound_kind |-> kind, name |-> name]
MapKind(kind, names) == [i \in DOMAIN names |-> Sound(kind, names[i])]

\* what one directory scan hands to init_audio_tracks: songs, then sfxs
\* (the same stem may be found twice, in two directories)
SoundLists ==
    {MapKind(SONG, s) \o MapKind(SFX, x) :
        s \in SeqsUpTo(SongStems, MaxSounds), x \in SeqsUpTo(SfxStems, 1)}
\* the scans of a directory that holds a.mp3 and then a.b.mp3 and c.wav too
FewSoundLists ==
    {MapKind(SONG, <<A>>),
     MapKind(SONG, <<A, AB>>) \o MapKind(SFX, <<C>>)}

MusicChoices == SeqsUpTo(Titles, MaxChoices)
FewMusicChoices == {<<>>, <<A>>}
SfxChoices == {None, PyStr(<<>>), PyStr(C)}
FewSfxChoices == {None, PyStr(C)}
RawVols == {None, PyInt(40), PyInt(100)}
Choices(ons, vols) ==
    [music_on : ons, music_vol : vols, sfx_on : ons, sfx_vol : vols]
AllChoices == Choices({PyBool(TRUE), PyBool(FALSE)}, RawVols)
\* the saves that are interleaved: one song and one sound effect, or nothing
ConcRequests ==
    {[music_choices |-> <<A>>, sfx_choice |-> PyStr(C)],
     [music_choices |-> <<>>, sfx_choice |-> None]}
ConcSoundLists == {MapKind(SONG, <<A, AB>>) \o MapKind(SFX, <<C>>)}
ConcChoices ==
    {[music_on |-> PyBool(TRUE), music_vol |-> PyInt(40),
      sfx_on |-> PyBool(FALSE), sfx_vol |-> None]}
FewChoices ==
    {[music_on |-> PyBool(TRUE), music_vol |-> PyInt(40),
      sfx_on |-> PyBool(FALSE), sfx_vol |-> None],
     [music_on |-> PyBool(FALSE), music_vol |-> None,
      sfx_on |-> PyBool(TRUE), sfx_vol |-> PyInt(100)]}

(****************************** catalog sync *******************************)

RECURSIVE FirstFrom(_, _, _)
FirstFrom(tracks, t, i) ==
    IF i > Len(tracks) THEN 0
    ELSE IF tracks[i].title = t THEN i
    ELSE FirstFrom(tracks, t, i + 1)

\* session.query(AudioTracks).filter_by(title=t).first(): its id, 0 for None
FirstByTitle(tracks, t) == FirstFrom(tracks, t, 1)

AddSoundAlways(tracks, sound) ==
    Append(tracks, [title |-> sound.name, is_music |-> sound.sound_kind])

add_sound(tracks, sound) ==
    IF FirstByTitle(tracks, sound.name) = 0
    THEN Append(tracks, [title |-> sound.name, is_music |-> sound.sound_kind])
    ELSE tracks

RECURSIVE init_audio_tracks(_, _)
init_audio_tracks(tracks, sounds) ==
    IF sounds = <<>> THEN tracks
    ELSE init_audio_tracks(add_sound(tracks, Head(sounds)), Tail(sounds))

(***************************** settings reader *****************************)

\* ids of the AudioTracks rows of kind k whose id is among the user's
\* selections, in id order
RECURSIVE ChosenOfKind(_, _, _, _)
ChosenOfKind(tracks, chosen, k, i) ==
    IF i > Len(tracks) THEN <<>>
    ELSE (IF i \in chosen /\ tracks[i].is_music = k THEN <<i>> ELSE <<>>)
            \o ChosenOfKind(tracks, chosen, k, i + 1)

ChosenTrackIds(table, user_id) ==
    {table[i].track_id : i \in {j \in DOMAIN table : table[j].user_id = user_id}}

get_tracks(tracks, table, user_id) ==
    LET chosen == ChosenTrackIds(table, user_id)
        music == ChosenOfKind(tracks, chosen, 1, 1)
        sfx == ChosenOfKind(tracks, chosen, 0, 1)
    IN  [playlist |-> [i \in DOMAIN music |->
                          tracks[music[i]].title \o <<".", "mp3">>],
         sfx_choice |-> IF sfx # <<>>
                        THEN PyStr(tracks[sfx[1]].title \o <<".", "wav">>)
                        ELSE None]

get_audio_settings(tracks, settings, table, user_id) ==
    LET t == get_tracks(tracks, table, user_id)
        row == settings[user_id]
    IN  IF row # None
        THEN [music_on |-> row.music_on, playlist |-> t.playlist,
              music_vol |-> row.music_vol, sfx_on |-> row.sfx_on,
              sfx_choice |-> t.sfx_choice, sfx_vol |-> row.sfx_vol]
        ELSE [music_on |-> None, playlist |-> t.playlist,
              music_vol |-> None, sfx_on |-> None,
              sfx_choice |-> t.sfx_choice, sfx_vol |-> None]

(*************************** playback bootstrap ****************************)

HandleVolAlways(is_audio_on, vol) ==
    IF vol.py # "int" THEN TypeError ELSE TrueDiv(vol.val, 100)

\* "vol /= 100" raises TypeError on None
handle_vol(is_audio_on, vol) ==
    IF Truthy(is_audio_on)
    THEN (IF vol.py # "int" THEN TypeError ELSE TrueDiv(vol.val, 100))
    ELSE vol

StartAudioNoDefaults(tracks, settings, table, user_id) ==
    LET s == get_audio_settings(tracks, settings, table, user_id)
        applied == s.music_on # None
        music_vol == IF applied THEN handle_vol(s.music_on, s.music_vol)
                     ELSE s.music_vol
        sfx_vol == IF applied /\ music_vol # TypeError
                   THEN handle_vol(s.sfx_on, s.sfx_vol)
                   ELSE s.sfx_vol
    IN  IF music_vol = TypeError \/ sfx_vol = TypeError
        THEN [op |-> "start", user |-> user_id, fault |-> "TypeError"]
        ELSE [op |-> "start", user |-> user_id, fault |-> "",
              handled |-> [applied |-> applied, music_vol |-> music_vol,
                           sfx_vol |-> sfx_vol],
              body |-> [music_on |-> s.music_on,
                        playlist |-> s.playlist,
                        music_vol |-> music_vol,
                        sfx_on |-> s.sfx_on,
                        sfx_choice |-> IF ~Truthy(s.sfx_choice)
                                       THEN <<>> ELSE s.sfx_choice.val,
                        sfx_vol |-> sfx_vol]]

\* the whole of start_audio: the response's json body, or the fault raised
start_audio(tracks, settings, table, user_id) ==
    LET s == get_audio_settings(tracks, settings, table, user_id)
        applied == s.music_on # None
        music_vol == IF applied THEN handle_vol(s.music_on, s.music_vol)
                     ELSE s.music_vol
        sfx_vol == IF applied /\ music_vol # TypeError
                   THEN handle_vol(s.sfx_on, s.sfx_vol)
                   ELSE s.sfx_vol
    IN  IF music_vol = TypeError \/ sfx_vol = TypeError
        THEN [op |-> "start", user |-> user_id, fault |-> "TypeError"]
        ELSE [op |-> "start", user |-> user_id, fault |-> "",
              handled |-> [applied |-> applied, music_vol |-> music_vol,
                           sfx_vol |-> sfx_vol],
              body |-> [music_on |-> s.music_on,
                        playlist |-> IF s.playlist = <<>>
                                     THEN DEFAULT_MUSIC ELSE s.playlist,
                        music_vol |-> IF s.playlist = <<>>
                                      THEN DEFAULT_MUSIC_VOL ELSE music_vol,
                        sfx_on |-> s.sfx_on,
                        sfx_choice |-> IF ~Truthy(s.sfx_choice)
                                       THEN DEFAULT_SFX ELSE s.sfx_choice.val,
                        sfx_vol |-> IF ~Truthy(s.sfx_choice)
                                    THEN DEFAULT_SFX_VOL ELSE sfx_vol]]

(***************************** settings writer *****************************)

\* session.add(audio_settings); session.commit() on UserSettings, whose
\* user_id is unique: a second row for the user is refused by the store
InsertSettings(settings, user_id, user_choices) ==
    IF settings[user_id] # None
    THEN [fault |-> "IntegrityError", settings |-> settings]
    ELSE [fault |-> "",
          settings |-> [settings EXCEPT ![user_id] = user_choices]]

\* session.query(UserSettings).filter_by(user_id=...).update(user_choices)
UpdateSettings(settings, user_id, user_choices) ==
    IF settings[user_id] = None
    THEN [fault |-> "", settings |-> settings]
    ELSE [fault |-> "",
          settings |-> [settings EXCEPT ![user_id] =
                           [f \in DOMAIN user_choices |-> user_choices[f]]]]

HandleAudioSettingsUpdateOnly(settings, found, user_id, user_choices) ==
    UpdateSettings(settings, user_id, user_choices)

\* found: whether the first() query returned a row
handle_audio_settings(settings, found, user_id, user_choices) ==
    IF ~found
    THEN InsertSettings(settings, user_id, user_choices)
    ELSE UpdateSettings(settings, user_id, user_choices)

\* session.add(record); session.commit() on UserAudioTracks: the table
\* carries no constraint over (user_id, track_id)
InsertRecord(table, record) == Append(table, record)

\* session.delete(record); session.commit() of the row at position i
DeleteRecord(table, i) ==
    [j \in 1..(Len(table) - 1) |-> IF j < i THEN table[j] ELSE table[j + 1]]

\* session.query(UserAudioTracks).filter_by(user_id=user_id): row positions
RECURSIVE RecordsOf(_, _, _)
RecordsOf(table, user_id, i) ==
    IF i > Len(table) THEN <<>>
    ELSE (IF table[i].user_id = user_id THEN <<i>> ELSE <<>>)
            \o RecordsOf(table, user_id, i + 1)

\* the deletion loop run without interruption: every row the query returns
\* is deleted, and the rows of the other users stay in their order
DeleteRecords(table, user_id) ==
    SelectSeq(table, LAMBDA record : record.user_id # user_id)

\* track = ...first(); track.id raises AttributeError when track is None
create_new_user_audio_record(tracks, table, choice, user_id) ==
    LET track_id == FirstByTitle(tracks, SplitFirst(choice))
    IN  IF track_id = 0
        THEN [fault |-> "AttributeError", table |-> table]
        ELSE [fault |-> "",
              table |-> InsertRecord(table, [user_id |-> user_id,
                                             track_id |-> track_id])]

\* the titles the two "if" blocks of handle_user_audio_tracks pass on, in order
ChoicesToCreate(music_choices, sfx_choice) ==
    music_choices \o (IF Truthy(sfx_choice) THEN <<sfx_choice.val>> ELSE <<>>)

RECURSIVE CreateRecords(_, _, _, _)
CreateRecords(tracks, table, todo, user_id) ==
    IF todo = <<>> THEN [fault |-> "", table |-> table]
    ELSE LET r == create_new_user_audio_record(tracks, table, Head(todo),
                                               user_id)
         IN  IF r.fault # "" THEN r
             ELSE CreateRecords(tracks, r.table, Tail(todo), user_id)

HandleUserAudioTracksKeepOld(tracks, table, user_id, music_choices, sfx_choice) ==
    CreateRecords(tracks, table,
                  ChoicesToCreate(music_choices, sfx_choice), user_id)

handle_user_audio_tracks(tracks, table, user_id, music_choices, sfx_choice) ==
    CreateRecords(tracks, DeleteRecords(table, user_id),
                  ChoicesToCreate(music_choices, sfx_choice), user_id)

(******************************** handlers ********************************)

Idle == [pc |-> "idle", served |-> 0]

Init ==
    /\ audio_tracks = <<>>
    /\ user_settings = [u \in Users |-> None]
    /\ user_audio_tracks = <<>>
    /\ requests = [w \in Workers |-> Idle]
    /\ response = [op |-> "none"]

\* GET /audio/settings: the directory scan, then init_audio_tracks
audio_settings(sounds) ==
    /\ audio_tracks' = init_audio_tracks(audio_tracks, sounds)
    /\ response' = [op |-> "sync", sounds |-> sounds,
                    inserted |-> Len(audio_tracks') - Len(audio_tracks),
                    repeat |-> response.op = "sync"
                               /\ response.sounds = sounds]
    /\ UNCHANGED <<user_settings, user_audio_tracks, requests>>

\* POST /audio/settings (get_choices -> save_audio_settings), run from start
\* to end with no other request in between
get_choices(user_id, music_choices, sfx_choice, user_choices) ==
    LET s == handle_audio_settings(user_settings,
                                   user_settings[user_id] # None,
                                   user_id, user_choices)
        r == IF s.fault # ""
             THEN [fault |-> s.fault, table |-> user_audio_tracks]
             ELSE handle_user_audio_tracks(audio_tracks, user_audio_tracks,
                                           user_id, music_choices, sfx_choice)
    IN  /\ user_settings' = s.settings
        /\ user_audio_tracks' = r.table
        /\ response' = [op |-> "save", user |-> user_id,
                        music_choices |-> music_choices,
                        sfx_choice |-> sfx_choice,
                        user_choices |-> user_choices,
                        had_rows |-> \E i \in DOMAIN user_audio_tracks :
                                        user_audio_tracks[i].user_id = user_id,
                        fault |-> r.fault]
        /\ UNCHANGED <<audio_tracks, requests>>

\* GET /audio/start
StartAudio(user_id) ==
    /\ response' = start_audio(audio_tracks, user_settings,
                               user_audio_tracks, user_id)
    /\ UNCHANGED <<audio_tracks, user_settings, user_audio_tracks, requests>>

NextOver(sounds_in, users_in, music_in, sfx_in, choices_in) ==
    \/ \E sounds \in sounds_in : audio_settings(sounds)
    \/ \E u \in users_in, m \in music_in, x \in sfx_in, c \in choices_in :
          get_choices(u, m, x, c)
    \/ \E u \in users_in : StartAudio(u)

\* the writer and the reader, over every submitted list of titles
Next == NextOver(FewSoundLists, Users, MusicChoices, SfxChoices, FewChoices)
Spec == Init /\ [][Next]_vars

\* the catalog sync, over every directory scan
CatalogNext ==
    NextOver(SoundLists, {"u1"}, FewMusicChoices, FewSfxChoices, FewChoices)
CatalogSpec == Init /\ [][CatalogNext]_vars

\* the playback bootstrap, over every flag and volume
VolumeNext ==
    NextOver(FewSoundLists, {"u1"}, FewMusicChoices, FewSfxChoices, AllChoices)
VolumeSpec == Init /\ [][VolumeNext]_vars

(***************** save requests interleaved at their commits **************)

InFlight == {"upsert", "select", "delete", "insert"}

\* what is kept of a save that returned or raised
Ended(q, pc, fault) ==
    [pc |-> pc, served |-> q.served, user |-> q.user,
     music_choices |-> q.music_choices, sfx_choice |-> q.sfx_choice,
     fault |-> fault]

\* where a save goes once a delete or an insert is committed
AfterCommit(snapshot, todo) ==
    IF snapshot # <<>> THEN "delete"
    ELSE IF todo # <<>> THEN "insert" ELSE "done"

\* a row of position i is deleted: what a stored position p then denotes
\* (0: a row that no longer exists)
Shifted(p, i) == IF p = i THEN 0 ELSE IF p > i THEN p - 1 ELSE p

\* get_choices is called; handle_audio_settings runs its first() query
Submit(w, user_id, music_choices, sfx_choice, user_choices) ==
    /\ requests[w].pc \notin InFlight
    /\ requests[w].served < MaxSaves
    /\ requests' = [requests EXCEPT ![w] =
          [pc |-> "upsert", served |-> requests[w].served + 1,
           user |-> user_id,
           music_choices |-> music_choices, sfx_choice |-> sfx_choice,
           user_choices |-> user_choices,
           found |-> user_settings[user_id] # None,
           snapshot |-> <<>>,
           todo |-> ChoicesToCreate(music_choices, sfx_choice),
           fault |-> ""]]
    /\ UNCHANGED <<audio_tracks, user_settings, user_audio_tracks, response>>

\* handle_audio_settings adds or updates the row and commits
Upsert(w) ==
    LET q == requests[w]
        s == handle_audio_settings(user_settings, q.found, q.user,
                                   q.user_choices)
    IN  /\ q.pc = "upsert"
        /\ user_settings' = s.settings
        /\ requests' = [requests EXCEPT ![w] =
              IF s.fault # ""
              THEN Ended(q, "failed", s.fault)
              ELSE [q EXCEPT !.pc = "select"]]
        /\ UNCHANGED <<audio_tracks, user_audio_tracks, response>>

SelectSerialized(w) ==
    LET q == requests[w]
        found == RecordsOf(user_audio_tracks, q.user, 1)
    IN  /\ q.pc = "select"
        /\ \A v \in Workers \ {w} :
              requests[v].pc \in {"select", "delete", "insert"}
                  => requests[v].user # q.user
        /\ requests' = [requests EXCEPT ![w] =
              IF AfterCommit(found, q.todo) = "done"
              THEN Ended(q, "done", "")
              ELSE [q EXCEPT !.snapshot = found,
                             !.pc = AfterCommit(found, q.todo)]]
        /\ UNCHANGED <<audio_tracks, user_settings, user_audio_tracks,
                       response>>

\* handle_user_audio_tracks starts to iterate its query: the rows are fetched
Select(w) ==
    LET q == requests[w]
        found == RecordsOf(user_audio_tracks, q.user, 1)
    IN  /\ q.pc = "select"
        /\ requests' = [requests EXCEPT ![w] =
              IF AfterCommit(found, q.todo) = "done"
              THEN Ended(q, "done", "")
              ELSE [q EXCEPT !.snapshot = found,
                             !.pc = AfterCommit(found, q.todo)]]
        /\ UNCHANGED <<audio_tracks, user_settings, user_audio_tracks,
                       response>>

\* session.delete(record); session.commit() of the next fetched row. A row
\* another request deleted meanwhile matches nothing, or faults when the
\* expired record is loaded again
Delete(w) ==
    LET q == requests[w]
        i == Head(q.snapshot)
        rest == Tail(q.snapshot)
    IN  /\ q.pc = "delete"
        /\ IF i = 0
           THEN /\ \/ requests' = [requests EXCEPT ![w] =
                         IF AfterCommit(rest, q.todo) = "done"
                         THEN Ended(q, "done", "")
                         ELSE [q EXCEPT !.snapshot = rest,
                                        !.pc = AfterCommit(rest, q.todo)]]
                   \/ requests' = [requests EXCEPT ![w] =
                         Ended(q, "failed", "ObjectDeletedError")]
                /\ UNCHANGED user_audio_tracks
           ELSE /\ user_audio_tracks' = DeleteRecord(user_audio_tracks, i)
                /\ requests' = [v \in Workers |->
                      IF v = w
                      THEN IF AfterCommit(rest, q.todo) = "done"
                           THEN Ended(q, "done", "")
                           ELSE [q EXCEPT
                                   !.snapshot = [k \in DOMAIN rest |->
                                                   Shifted(rest[k], i)],
                                   !.pc = AfterCommit(rest, q.todo)]
                      ELSE IF requests[v].pc = "delete"
                      THEN [requests[v] EXCEPT
                              !.snapshot = [k \in DOMAIN @ |->
                                              Shifted(@[k], i)]]
                      ELSE requests[v]]
        /\ UNCHANGED <<audio_tracks, user_settings, response>>

\* create_new_user_audio_record for the next requested title
Insert(w) ==
    LET q == requests[w]
        r == create_new_user_audio_record(audio_tracks, user_audio_tracks,
                                          Head(q.todo), q.user)
    IN  /\ q.pc = "insert"
        /\ user_audio_tracks' = r.table
        /\ requests' = [requests EXCEPT ![w] =
              IF r.fault # ""
              THEN Ended(q, "failed", r.fault)
              ELSE IF Tail(q.todo) = <<>>
              THEN Ended(q, "done", "")
              ELSE [q EXCEPT !.todo = Tail(q.todo)]]
        /\ UNCHANGED <<audio_tracks, user_settings, response>>

ConcNext ==
    \/ \E sounds \in ConcSoundLists : audio_settings(sounds)
    \/ \E w \in Workers, u \in Users, q \in ConcRequests, c \in ConcChoices :
          Submit(w, u, q.music_choices, q.sfx_choice, c)
    \/ \E w \in Workers : Upsert(w)
    \/ \E w \in Workers : Select(w)
    \/ \E w \in Workers : Delete(w)
    \/ \E w \in Workers : Insert(w)

ConcSpec == Init /\ [][ConcNext]_vars

(******************************* properties ********************************)

\* titles of the AudioTracks rows of kind k
Catalogued(k) ==
    {audio_tracks[i].title :
        i \in {j \in DOMAIN audio_tracks : audio_tracks[j].is_music = k}}
AllCatalogued == Catalogued(SONG) \cup Catalogued(SFX)

Range(f) == {f[i] : i \in DOMAIN f}

\* titles of the tracks the user's selection rows point to, in table order
SelectedTitles(user_id) ==
    LET pos == RecordsOf(user_audio_tracks, user_id, 1)
    IN  [k \in DOMAIN pos |->
            audio_tracks[user_audio_tracks[pos[k]].track_id].title]

\* the titles a save request asks to select, in order
Requested == ChoicesToCreate(response.music_choices, response.sfx_choice)

\* C1: after a save that ran to completion, whose music_choices are titles of
\* catalogued music tracks and whose sfx_choice is the title of a catalogued
\* sound effect, get_tracks returns exactly the requested music titles with
\* ".mp3" and the requested sfx title with ".wav".
C1_ReadAfterSave ==
    (/\ response.op = "save"
     /\ response.fault = ""
     /\ Range(response.music_choices) \subseteq Catalogued(SONG)
     /\ response.sfx_choice.py = "str"
     /\ response.sfx_choice.val \in Catalogued(SFX))
    => LET t == get_tracks(audio_tracks, user_audio_tracks, response.user)
       IN  /\ Range(t.playlist) =
                {m \o <<".", "mp3">> : m \in Range(response.music_choices)}
           /\ t.sfx_choice = PyStr(response.sfx_choice.val \o <<".", "wav">>)

\* C2: after a save by a user who had selections from an earlier save has
\* run to completion, the user's selection rows are exactly those of the
\* second request (the tracks titled as requested), nothing of the first
\* save remaining.
C2_SecondSaveReplaces ==
    (/\ response.op = "save"
     /\ response.fault = ""
     /\ response.had_rows
     /\ Range(Requested) \subseteq AllCatalogued)
    => SelectedTitles(response.user) = Requested

\* C3: a sync that repeats the file list of the sync before it inserts no
\* row, and the tracks table never holds two rows with the same title.
C3_SyncIdempotent ==
    /\ \A i, j \in DOMAIN audio_tracks :
          audio_tracks[i].title = audio_tracks[j].title => i = j
    /\ (response.op = "sync" /\ response.repeat) => response.inserted = 0

C3_Witness ==
    /\ response.op = "sync"
    /\ response.repeat
    /\ Len(response.sounds) >= 2
    /\ Len(audio_tracks) >= 2

\* C4: the selection table holds at most one row for each (user_id, track_id).
C4_SelectionUnique ==
    \A i, j \in DOMAIN user_audio_tracks :
        user_audio_tracks[i] = user_audio_tracks[j] => i = j

\* C5: the bootstrap response carries the default playlist
\* ["GASTRONOMICA.mp3"] with music volume 0.5 when the reader's playlist is
\* empty and the user's playlist otherwise; the default sfx "click_1.wav"
\* with sfx volume 0.5 when the reader returns no sfx choice and the user's
\* sfx choice otherwise.
C5_BootstrapDefaults ==
    (response.op = "start" /\ response.fault = "")
    => LET r == get_audio_settings(audio_tracks, user_settings,
                                   user_audio_tracks, response.user)
           b == response.body
       IN  /\ r.playlist = <<>>
                => /\ b.playlist = << <<"GASTRONOMICA", ".", "mp3">> >>
                   /\ b.music_vol.py = "float"
                   /\ 2 * b.music_vol.num = b.music_vol.den
           /\ r.playlist # <<>> => b.playlist = r.playlist
           /\ r.sfx_choice = None
                => /\ b.sfx_choice = <<"click_1", ".", "wav">>
                   /\ b.sfx_vol.py = "float"
                   /\ 2 * b.sfx_vol.num = b.sfx_vol.den
           /\ r.sfx_choice # None => b.sfx_choice = r.sfx_choice.val

C5_Witness ==
    /\ response.op = "start"
    /\ response.fault = ""
    /\ LET r == get_audio_settings(audio_tracks, user_settings,
                                   user_audio_tracks, response.user)
       IN  r.playlist = <<>> /\ r.sfx_choice # None /\ r.music_on # None

\* C6: a user with no settings row has no selection row, and the reader
\* returns unset flags and volumes, an empty playlist and no sfx choice for
\* that user, whatever saves ran, failed part-way or are in flight.
C6_NoSettingsNoSelection ==
    \A u \in Users :
        user_settings[u] = None
        => /\ RecordsOf(user_audio_tracks, u, 1) = <<>>
           /\ get_audio_settings(audio_tracks, user_settings,
                                 user_audio_tracks, u)
                = [music_on |-> None, playlist |-> <<>>, music_vol |-> None,
                   sfx_on |-> None, sfx_choice |-> None, sfx_vol |-> None]

C6_Witness ==
    /\ \E u \in Users : user_settings[u] = None
    /\ user_audio_tracks # <<>>
    /\ \E w \in Workers : requests[w].pc = "failed"
    /\ \E w \in Workers : requests[w].pc \in InFlight

\* what handle_vol is to return for a flag and a raw volume
Normalized(on, raw, out) ==
    /\ (on.val /\ raw.py = "int")
          => /\ out.py = "float"
             /\ 100 * out.num = raw.val * out.den
             /\ raw.val = 40 => (out.num = 2 /\ out.den = 5)
    /\ ~on.val => out = raw

WriterStep(w) == Upsert(w) \/ Select(w) \/ Delete(w) \/ Insert(w)

\* the selection set a save of the request kept in q leaves when run alone
AloneSet(q) ==
    ChosenTrackIds(
        handle_user_audio_tracks(audio_tracks, <<>>, q.user,
                                 q.music_choices, q.sfx_choice).table,
        q.user)

\* C8: nothing in the writer makes a save wait for another one: whatever the
\* other save of the same user is doing, a save in flight can take its next
\* step (the state C8_Witness, reached through such an interleaving, has both
\* saves completed and a selection set that is neither request's).
C8_NoMutualExclusion ==
    \A w \in Workers : requests[w].pc \in InFlight => ENABLED WriterStep(w)

C8_Witness ==
    /\ requests["w1"].pc = "done" /\ requests["w2"].pc = "done"
    /\ requests["w1"].served = 1 /\ requests["w2"].served = 1
    /\ requests["w1"].user = requests["w2"].user
    /\ ChosenTrackIds(user_audio_tracks, requests["w1"].user)
          \notin {AloneSet(requests["w1"]), AloneSet(requests["w2"])}

\* position of the first element of todo that is not in known, 0 if none
RECURSIVE FirstNotIn(_, _, _)
FirstNotIn(todo, known, i) ==
    IF i > Len(todo) THEN 0
    ELSE IF todo[i] \notin known THEN i
    ELSE FirstNotIn(todo, known, i + 1)

Stems(todo) == [i \in DOMAIN todo |-> SplitFirst(todo[i])]

C10_StartNeverFaults ==
    response.op = "start"
    => /\ response.fault = ""
       /\ DOMAIN response.body = {"music_on", "playlist", "music_vol",
                                  "sfx_on", "sfx_choice", "sfx_vol"}

====
